---------------------------- MODULE Spec2Model ----------------------------
(***************************************************************************)
(* ESP32 weather station: MQ-135 gas model, calibration persistence and    *)
(* the edge-triggered alert evaluator, for both sketches of the            *)
(* repository:                                                             *)
(*   "v2"  src/ESP32_WeatherStation_v2.ino  (single cooperative loop)      *)
(*   "v3"  src/unnamed/part_000             (two FreeRTOS tasks)           *)
(*                                                                         *)
(* Units.  Floats are fixed-point integers:                                *)
(*   temperature  0.1 degC      humidity 0.1 %RH     pressure 0.1 hPa      *)
(*   voltage      0.1 mV        Rs, Ro   ohm (0.001 kOhm)                  *)
(*   ratio        0.001         gasPPM   1 ppm                             *)
(* NaN and +Inf are the two distinguished values below; every comparison   *)
(* and division goes through FGt/FLt/FDiv so that they behave as IEEE-754  *)
(* does (a comparison with NaN is false, x/0 is +Inf, 0/0 is NaN).         *)
(***************************************************************************)
EXTENDS Integers, Sequences, FiniteSets, TLC

VARIABLES
  firmware,           \* which sketch is flashed: "v2" or "v3"
  pc,                 \* position of loop() (v2) / networkTaskImpl (v3)
  spc,                \* position of the sampling path (sensorTaskImpl in v3)
  temperature, humidity, pressure, gasRaw, gasPPM, Ro,
  sensorError,
  gasAlertActive, tempAlertActive, humidityAlertSent, pressureAlertSent,
  preferences,        \* the NVS namespace "weather" (durable)
  prefsStarted,       \* Preferences::_started of the global handle
  commands,           \* the RTDB node <device>/commands (remote, durable)
  json,               \* the commands read by the running checkFirebaseCommands
  sample,             \* what the last step's readSensors read, if it read
  sent,               \* alert types sendAlert was called with by the last step
  cleared,            \* alert types the last step took from Active to Inactive
  calRuns,            \* calibrateMQ135 runs completed by the last step
  rebooted,           \* why the last step rebooted the device, or "no"
  calSamples,         \* the analogRead results of the last step's calibration
  uploaded,           \* the live updates the last step handed to updateNode
  stored,             \* the history records the last step handed to pushJSON
  clock,              \* server time, in units of 10 s
  live,               \* the RTDB node <device>/live: <<gas_ppm, timestamp>>
  last_seen,          \* the RTDB node <device>/meta/last_seen, 0 if absent
  response,           \* the reply of the middleware to the last request
  sinkReady,          \* Firebase.ready() and pushJSON succeed (the alert sink)
  delivered,          \* alert types the last step's sendAlert pushed to the sink
  calIndex,           \* i of the sampling loop of calibrateMQ135
  rsSum,              \* the local rs of calibrateMQ135 (running sum)
  sinceReset,         \* ms since the last esp_task_wdt_reset of the caller
  semaphore,          \* count of the binary semaphore sensorDataMutex (v3)
  holders,            \* tasks between a successful take and their give
  snapshot,           \* the sensor fields as the last completed cycle left them
  statusReply,        \* the sensor fields of the last step's /status reply
  millis,             \* uptime in ms, as millis() returns it
  wifiReconnectTime,  \* millis of the last reconnect attempt
  reconnectAttempts,
  wifiConnected,
  wlStatus            \* what WiFi.status() returns

vars == <<firmware, pc, spc, temperature, humidity, pressure, gasRaw, gasPPM,
          Ro, sensorError, gasAlertActive, tempAlertActive, humidityAlertSent,
          pressureAlertSent, preferences, prefsStarted, commands, json,
          sample, sent, cleared, calRuns, rebooted, calSamples, uploaded,
          stored, clock, live, last_seen, response, sinkReady, delivered,
          calIndex, rsSum, sinceReset, semaphore, holders, snapshot,
          statusReply, millis, wifiReconnectTime, reconnectAttempts,
          wifiConnected, wlStatus>>

\* what the middleware reads and answers; followed in SpecApi only
cloud == <<clock, live, last_seen, response>>

\* the steps inside calibrateMQ135; followed in SpecCalibration only
calibrationLoop == <<calIndex, rsSum, sinceReset>>

\* the semaphore and its users, step by step; followed in SpecMutex only
mutexUsers == <<semaphore, holders, snapshot, statusReply>>

\* the WiFi check of loop(); followed in SpecWiFi only
wifiLink ==
  <<millis, wifiReconnectTime, reconnectAttempts, wifiConnected, wlStatus>>

\* what the specification of the whole device leaves alone
elsewhere == <<cloud, sinkReady, calibrationLoop, mutexUsers, wifiLink>>

---------------------------------------------------------------------------
(* IEEE-754 special values and the operations the sketches use             *)

NaN == -2000000000
Inf == 2000000000

FGt(a, b) == a # NaN /\ b # NaN /\ a > b
FLt(a, b) == a # NaN /\ b # NaN /\ a < b
FGe(a, b) == a # NaN /\ b # NaN /\ a >= b
FLe(a, b) == a # NaN /\ b # NaN /\ a <= b

\* a / b for a, b >= 0, the quotient scaled by `scale`
FDiv(a, b, scale) ==
  IF a = NaN \/ b = NaN THEN NaN
  ELSE IF b = Inf THEN (IF a = Inf THEN NaN ELSE 0)
  ELSE IF a = Inf THEN Inf
  ELSE IF b = 0 THEN (IF a = 0 THEN NaN ELSE Inf)
  ELSE (a * scale) \div b

FAdd(a, b) ==
  IF a = NaN \/ b = NaN THEN NaN
  ELSE IF a = Inf \/ b = Inf THEN Inf
  ELSE a + b

---------------------------------------------------------------------------
(* Program constants                                                       *)

RL_VALUE == 10000
RO_CLEAN_AIR_FACTOR == 36
CALIBRATION_SAMPLE_TIMES == 20
TEMP_HIGH_ALERT == 350
TEMP_LOW_ALERT == 100
HUMIDITY_HIGH_ALERT == 800
HUMIDITY_LOW_ALERT == 300
GAS_ALERT_THRESHOLD == 300
PRESSURE_LOW_ALERT == 9800
RoDefault == 10000
ADC_MAX == 4095
VREF == 33000

---------------------------------------------------------------------------
(* Gas model                                                               *)

\* 116.6020682 * pow(ratio, -2.769034857), tabulated: <<ratio in 0.001, ppm>>.
\* A ratio between two rows takes the row below it; below 0.005 the result
\* exceeds 10^9 ppm and is held there.
PpmCurve ==
  << <<1, 1000000000>>, <<5, 274371197>>, <<10, 40250934>>, <<25, 3183217>>,
     <<50, 466986>>, <<100, 68508>>, <<200, 10050>>, <<300, 3270>>,
     <<400, 1474>>, <<500, 795>>, <<600, 480>>, <<700, 313>>,
     <<710, 301>>, <<711, 300>>, <<712, 299>>, <<720, 290>>,
     <<750, 259>>, <<800, 216>>, <<900, 156>>, <<1000, 117>>,
     <<1250, 63>>, <<1500, 38>>, <<2000, 17>>, <<3000, 6>>,
     <<5000, 1>>, <<10000, 0>> >>

\* pow(ratio, -2.769034857) * 116.6020682 with the IEEE special cases:
\* pow(+0, y<0) = +Inf, pow(+Inf, y<0) = 0, pow(NaN, y) = NaN
PowerLaw(ratio) ==
  IF ratio = NaN THEN NaN
  ELSE IF ratio = Inf THEN 0
  ELSE IF ratio <= 0 THEN Inf
  ELSE LET below == {i \in 1..Len(PpmCurve) : PpmCurve[i][1] <= ratio}
           top == CHOOSE i \in below : \A j \in below : j <= i
       IN PpmCurve[top][2]

\* float voltage = adcValue * (3.3 / 4095.0)
Voltage(adcValue) == (adcValue * VREF) \div ADC_MAX

\* ((3.3 * RL_VALUE) / voltage) - RL_VALUE
SensorRs(voltage) ==
  LET q == FDiv(VREF * (RL_VALUE \div 1000), voltage, 1000)
  IN IF q = Inf \/ q = NaN THEN q ELSE q - RL_VALUE

\* a calculateGasPPM that smooths over the previous result
calculateGasPPM_v2_smoothed(adcValue, ro) ==
  LET fresh == IF Voltage(adcValue) = 0 THEN 0
               ELSE PowerLaw(FDiv(SensorRs(Voltage(adcValue)), ro, 1000))
  IN IF fresh \in {NaN, Inf} \/ gasPPM \in {NaN, Inf} THEN fresh
     ELSE (gasPPM + fresh) \div 2

\* v2 calculateGasPPM(adcValue): no compensation, negative Rs clamped to 0
calculateGasPPM_v2(adcValue, ro) ==
  LET voltage == Voltage(adcValue)
      rs0 == SensorRs(voltage)
      rs == IF FLt(rs0, 0) THEN 0 ELSE rs0
  IN IF voltage = 0 THEN 0 ELSE PowerLaw(FDiv(rs, ro, 1000))

\* 1.0 + (temp - 20.0) * (-0.005) + (hum - 33.0) * (-0.002), in 0.0001
CorrectionFactor(temp, hum) ==
  IF temp = NaN \/ hum = NaN THEN NaN
  ELSE 10000 - 5 * (temp - 200) - 2 * (hum - 330)

\* a compensated calculateGasPPM without the voltage guard
calculateGasPPM_v3_unguarded(adcValue, temp, hum, ro) ==
  PowerLaw(FDiv(FDiv(SensorRs(Voltage(adcValue)),
                     CorrectionFactor(temp, hum), 10000), ro, 1000))

\* v3 calculateGasPPM(adcValue, temp, hum): temperature/humidity compensated
calculateGasPPM_v3(adcValue, temp, hum, ro) ==
  LET voltage == Voltage(adcValue)
      rs == SensorRs(voltage)
      correctedRs == FDiv(rs, CorrectionFactor(temp, hum), 10000)
  IN IF voltage <= 0 THEN 0 ELSE PowerLaw(FDiv(correctedRs, ro, 1000))

calculateGasPPM(fw, adcValue, temp, hum, ro) ==
  IF fw = "v2" THEN calculateGasPPM_v2(adcValue, ro)
  ELSE calculateGasPPM_v3(adcValue, temp, hum, ro)

---------------------------------------------------------------------------
(* Calibration                                                             *)

RECURSIVE SumRs(_, _)
\* the loop of calibrateMQ135: rs += ((3.3 * RL_VALUE) / voltage) - RL_VALUE
SumRs(samples, i) ==
  IF i = 0 THEN 0
  ELSE FAdd(SumRs(samples, i - 1), SensorRs(Voltage(samples[i])))

\* a calibration that averages the new baseline with the one in memory
CalibrateRo_drifting(samples) ==
  LET rs == FDiv(SumRs(samples, Len(samples)), CALIBRATION_SAMPLE_TIMES, 1)
      fresh == FDiv(rs, RO_CLEAN_AIR_FACTOR, 10)
  IN IF fresh \in {NaN, Inf} \/ Ro \in {NaN, Inf} THEN fresh
     ELSE (Ro + fresh) \div 2

\* rs = rs / CALIBRATION_SAMPLE_TIMES; Ro = rs / RO_CLEAN_AIR_FACTOR
CalibrateRo(samples) ==
  LET rs == FDiv(SumRs(samples, Len(samples)), CALIBRATION_SAMPLE_TIMES, 1)
  IN FDiv(rs, RO_CLEAN_AIR_FACTOR, 10)

---------------------------------------------------------------------------
(* Inputs                                                                  *)

\* what one readSensors call reads: <<newTemp, newHum, newPres, adc>> from
\* bme.readTemperature/readHumidity/readPressure and analogRead(MQ135_PIN)
Samples ==
  { <<200, 500, 10000, 0>>,       \* ordinary air, MQ-135 reads nothing
    <<200, 500, 10000, 3608>>,    \* 300 ppm without compensation (Ro = 1.895)
    <<200, 500, 10000, 2427>>,    \* 300 ppm with compensation (Ro = 10)
    <<200, 500, 10000, 3000>>,    \* gas well above the threshold
    <<NaN, 550, 10000, 0>>,       \* temperature read failed, humidity moved
    <<200, NaN, 10000, 0>>,       \* humidity read failed
    <<200, 500, NaN, 0>>,         \* pressure read failed
    <<350, 800, 9800, 3608>>,     \* every metric on its (upper) threshold
    <<351, 801, 9799, 3000>>,     \* just beyond them
    <<100, 300, 11999, 0>>,       \* on the lower thresholds, pressure high
    <<99, 299, 8001, 0>>,         \* just below them
    <<-400, -1, 8000, 3000>>,     \* on / below the lower validity bounds
    <<850, 1001, 12000, 0>> }     \* on / above the upper validity bounds

\* the 20 analogRead results of one calibration run
CalibrationRuns ==
  { [i \in 1..CALIBRATION_SAMPLE_TIMES |-> 0],
    [i \in 1..CALIBRATION_SAMPLE_TIMES |-> IF i <= 10 THEN 2048 ELSE 3000] }

Commands == {"calibrate", "reboot", "reset_preferences", "test_display"}

\* commands an operator leaves pending at the same time
MaxPending == 1

\* the server clock when the model starts, and where it stops; one unit is
\* UPLOAD_INTERVAL (10 s), so the 30 s presence threshold is 3 units
StartOfTime == 3
MaxClock == 6

\* no request answered by the last step
NoResponse ==
  [endpoint |-> "none", authorized |-> FALSE, action |-> "", code |-> 0,
   status |-> "", air_quality_status |-> ""]

\* the values of these variables where they are not followed
CloudIdle ==
  /\ clock = StartOfTime /\ live = <<>> /\ last_seen = 0
  /\ response = NoResponse
SinkIdle == sinkReady = TRUE
CalibrationIdle == calIndex = 0 /\ rsSum = 0 /\ sinceReset = 0
MutexIdle ==
  /\ semaphore = 1 /\ holders = {} /\ snapshot = <<>> /\ statusReply = {}
WiFiIdle ==
  /\ millis = 0 /\ wifiReconnectTime = 0 /\ reconnectAttempts = 0
  /\ wifiConnected = FALSE /\ wlStatus = "WL_DISCONNECTED"

\* what the last step did, when it did none of it
Quiet ==
  /\ sample' = <<>> /\ sent' = {} /\ delivered' = {} /\ cleared' = {}
  /\ calRuns' = 0 /\ rebooted' = "no"
  /\ calSamples' = <<>> /\ uploaded' = {} /\ stored' = {}

---------------------------------------------------------------------------
(* Preferences (NVS): every call is a no-op on a handle that is not started *)

EmptyStore == [keys |-> {}, mq135_ro |-> 0, force_calib |-> FALSE]

\* a getFloat that never finds the key
getFloat_default(store, default) == default

getFloat(store, default) ==
  IF "mq135_ro" \in store.keys THEN store.mq135_ro ELSE default

getBool(store, default) ==
  IF "force_calib" \in store.keys THEN store.force_calib ELSE default

isKey(store, key) == key \in store.keys

putFloat(store, started, value) ==
  IF started
  THEN [store EXCEPT !.keys = @ \cup {"mq135_ro"}, !.mq135_ro = value]
  ELSE store

putBool(store, started, value) ==
  IF started
  THEN [store EXCEPT !.keys = @ \cup {"force_calib"}, !.force_calib = value]
  ELSE store

clear(store, started) == IF started THEN EmptyStore ELSE store

---------------------------------------------------------------------------
(* Boot                                                                    *)

\* the globals as the sketch initialises them; reached by ESP.restart() and
\* by a power cycle
Booted(cause) ==
  /\ pc' = "boot" /\ spc' = "off"
  /\ temperature' = 0 /\ humidity' = 0 /\ pressure' = 0
  /\ gasRaw' = 0 /\ gasPPM' = 0 /\ Ro' = RoDefault
  /\ sensorError' = FALSE
  /\ gasAlertActive' = FALSE /\ tempAlertActive' = FALSE
  /\ humidityAlertSent' = FALSE /\ pressureAlertSent' = FALSE
  /\ prefsStarted' = FALSE
  /\ json' = {}
  /\ sample' = <<>> /\ sent' = {} /\ delivered' = {} /\ cleared' = {}
  /\ calRuns' = 0
  /\ rebooted' = cause
  /\ calSamples' = <<>> /\ uploaded' = {} /\ stored' = {}

Init ==
  /\ firmware \in {"v2", "v3"}
  /\ pc = "boot" /\ spc = "off"
  /\ temperature = 0 /\ humidity = 0 /\ pressure = 0
  /\ gasRaw = 0 /\ gasPPM = 0 /\ Ro = RoDefault
  /\ sensorError = FALSE
  /\ gasAlertActive = FALSE /\ tempAlertActive = FALSE
  /\ humidityAlertSent = FALSE /\ pressureAlertSent = FALSE
  /\ preferences = EmptyStore
  /\ prefsStarted = FALSE
  /\ commands = [c \in Commands |-> FALSE]
  /\ json = {}
  /\ sample = <<>> /\ sent = {} /\ delivered = {} /\ cleared = {}
  /\ calRuns = 0
  /\ rebooted = "no"
  /\ calSamples = <<>> /\ uploaded = {} /\ stored = {}
  /\ clock = StartOfTime /\ live = <<>> /\ last_seen = 0
  /\ response = NoResponse
  /\ SinkIdle /\ CalibrationIdle /\ MutexIdle /\ WiFiIdle

\* a calibration strategy that writes the default over a stored baseline
CalibrationStrategy_rewriting(store, run) ==
  IF getBool(store, FALSE)
  THEN <<CalibrateRo(run),
         putBool(putFloat(store, TRUE, CalibrateRo(run)), TRUE, FALSE), 1>>
  ELSE IF ~isKey(store, "mq135_ro")
  THEN <<CalibrateRo(run), putFloat(store, TRUE, CalibrateRo(run)), 1>>
  ELSE <<getFloat(store, RoDefault), putFloat(store, TRUE, RoDefault), 0>>

\* v2 setup(): the calibration strategy, <<Ro, store, runs>> after it
CalibrationStrategy(store, run) ==
  IF getBool(store, FALSE)
  THEN <<CalibrateRo(run),
         putBool(putFloat(store, TRUE, CalibrateRo(run)), TRUE, FALSE), 1>>
  ELSE IF ~isKey(store, "mq135_ro")
  THEN <<CalibrateRo(run), putFloat(store, TRUE, CalibrateRo(run)), 1>>
  ELSE <<getFloat(store, RoDefault), store, 0>>

\* v2 setup(): preferences.begin, load Ro, initHardware, calibration strategy
Setup_v2 ==
  /\ firmware = "v2" /\ pc = "boot"
  /\ \E bmeFound \in BOOLEAN, run \in CalibrationRuns :
       LET r == CalibrationStrategy(preferences, run)
       IN /\ sensorError' = ~bmeFound
          /\ Ro' = r[1]
          /\ preferences' = r[2]
          /\ calRuns' = r[3]
          /\ calSamples' = IF r[3] = 1 THEN run ELSE <<>>
  /\ prefsStarted' = TRUE
  /\ pc' = "net" /\ spc' = "read"
  /\ sample' = <<>> /\ sent' = {} /\ delivered' = {} /\ cleared' = {}
  /\ rebooted' = "no"
  /\ uploaded' = {} /\ stored' = {}
  /\ UNCHANGED <<firmware, temperature, humidity, pressure, gasRaw, gasPPM,
                 gasAlertActive, tempAlertActive, humidityAlertSent,
                 pressureAlertSent, commands, json>>
  /\ UNCHANGED elsewhere

\* v3 setup(): preferences.begin, load Ro, initHardware, setupWiFiManager
\* (which ends with preferences.end()), then the two tasks are created
Setup_v3 ==
  /\ firmware = "v3" /\ pc = "boot"
  /\ \E bmeFound \in BOOLEAN : sensorError' = ~bmeFound
  /\ Ro' = getFloat(preferences, RoDefault)
  /\ prefsStarted' = FALSE
  /\ pc' = "net" /\ spc' = "read"
  /\ Quiet
  /\ UNCHANGED <<firmware, temperature, humidity, pressure, gasRaw, gasPPM,
                 gasAlertActive, tempAlertActive, humidityAlertSent,
                 pressureAlertSent, preferences, commands, json>>
  /\ UNCHANGED elsewhere

\* power is removed and restored
PowerCycle ==
  /\ pc # "boot"
  /\ Booted("power")
  /\ UNCHANGED <<firmware, preferences, commands>>
  /\ UNCHANGED elsewhere

---------------------------------------------------------------------------
(* Sampling path                                                           *)

\* the validation of readSensors: !isnan(x) && x > lo && x < hi, and for
\* humidity !isnan(x) && x >= 0 && x <= 100
ValidTemp(newTemp) == newTemp # NaN /\ newTemp > -400 /\ newTemp < 850
ValidHum(newHum) == newHum # NaN /\ newHum >= 0 /\ newHum <= 1000
ValidPres(newPres) == newPres # NaN /\ newPres > 8000 /\ newPres < 12000

\* an all-or-nothing readSensors: one failed field discards the whole read
Validated_AllOrNothing(s, t, h, p) ==
  IF ValidTemp(s[1]) /\ ValidHum(s[2]) /\ ValidPres(s[3])
  THEN <<s[1], s[2], s[3]>>
  ELSE <<t, h, p>>

\* the three validated assignments of readSensors: <<temperature, humidity,
\* pressure>> after a read of s over the stored t, h, p
Validated(s, t, h, p) ==
  << IF ValidTemp(s[1]) THEN s[1] ELSE t,
     IF ValidHum(s[2]) THEN s[2] ELSE h,
     IF ValidPres(s[3]) THEN s[3] ELSE p >>

\* where the sampling path runs: every loop() iteration after the command
\* check (v2), or its own task (v3)
SamplingAt(at) ==
  /\ spc = at
  /\ IF firmware = "v2" THEN pc = "sensors" ELSE pc # "boot"

\* a readSensors that still reads the MQ-135 when the BME280 is absent
readSensors_gasOnly ==
  /\ SamplingAt("read")
  /\ \E s \in Samples :
       LET v == IF sensorError THEN <<temperature, humidity, pressure>>
                ELSE Validated(s, temperature, humidity, pressure)
       IN /\ sample' = s
          /\ temperature' = v[1]
          /\ humidity' = v[2]
          /\ pressure' = v[3]
          /\ gasRaw' = s[4]
          /\ gasPPM' = calculateGasPPM(firmware, s[4], v[1], v[2], Ro)
  /\ spc' = IF firmware = "v2" THEN "upload" ELSE "give"
  /\ sent' = {} /\ delivered' = {} /\ cleared' = {}
  /\ calRuns' = 0 /\ rebooted' = "no"
  /\ calSamples' = <<>> /\ uploaded' = {} /\ stored' = {}
  /\ UNCHANGED <<firmware, pc, Ro, sensorError, gasAlertActive,
                 tempAlertActive, humidityAlertSent, pressureAlertSent,
                 preferences, prefsStarted, commands, json>>
  /\ UNCHANGED elsewhere

\* readSensors()
readSensors ==
  /\ SamplingAt("read")
  /\ IF sensorError
     THEN /\ sample' = <<>>
          /\ UNCHANGED <<temperature, humidity, pressure, gasRaw, gasPPM>>
     ELSE \E s \in Samples :
            LET v == Validated(s, temperature, humidity, pressure)
            IN /\ sample' = s
               /\ temperature' = v[1]
               /\ humidity' = v[2]
               /\ pressure' = v[3]
               /\ gasRaw' = s[4]
               /\ gasPPM' = calculateGasPPM(firmware, s[4], v[1], v[2], Ro)
  /\ spc' = IF firmware = "v2" THEN "upload" ELSE "give"
  /\ sent' = {} /\ delivered' = {} /\ cleared' = {}
  /\ calRuns' = 0 /\ rebooted' = "no"
  /\ calSamples' = <<>> /\ uploaded' = {} /\ stored' = {}
  /\ UNCHANGED <<firmware, pc, Ro, sensorError, gasAlertActive,
                 tempAlertActive, humidityAlertSent, pressureAlertSent,
                 preferences, prefsStarted, commands, json>>
  /\ UNCHANGED elsewhere

\* v3 readSensors(): xSemaphoreGive(sensorDataMutex) ends the critical section
readSensorsGive ==
  /\ firmware = "v3" /\ SamplingAt("give")
  /\ spc' = "alerts"
  /\ Quiet
  /\ UNCHANGED <<firmware, pc, temperature, humidity, pressure, gasRaw,
                 gasPPM, Ro, sensorError, gasAlertActive, tempAlertActive,
                 humidityAlertSent, pressureAlertSent, preferences,
                 prefsStarted, commands, json>>
  /\ UNCHANGED elsewhere

\* a temperature condition that includes its thresholds
TempOut_inclusive ==
  FGe(temperature, TEMP_HIGH_ALERT) \/ FLe(temperature, TEMP_LOW_ALERT)

\* the conditions of checkAlerts()
GasHigh == FGt(gasPPM, GAS_ALERT_THRESHOLD)
TempOut == FGt(temperature, TEMP_HIGH_ALERT) \/ FLt(temperature, TEMP_LOW_ALERT)
HumOut == FGt(humidity, HUMIDITY_HIGH_ALERT) \/ FLt(humidity, HUMIDITY_LOW_ALERT)
PresLow == FLt(pressure, PRESSURE_LOW_ALERT)

\* a level-triggered block: sendAlert on every sample out of band
Raises_level(out, active) == out

\* a latching block: the flag, once set, is never reset
FlagAfter_latched(out, active) == out \/ active

\* one block of checkAlerts(): whether sendAlert is called
Raises(out, active) == out /\ ~active

\* one block of checkAlerts(): the flag after it
FlagAfter(out, active) == out

\* the alert types of the four blocks of checkAlerts(), in its order: gas,
\* temperature, humidity, pressure
AlertTypes(gas, temp, hum, pres) ==
  (IF gas THEN {"gas_leak"} ELSE {})
  \cup (IF temp THEN {"temperature"} ELSE {})
  \cup (IF hum THEN {"humidity"} ELSE {})
  \cup (IF pres THEN {"pressure"} ELSE {})

\* a sendAlert that retries until the sink has taken the alert
sendAlert_retrying(types, ready) == types

\* sendAlert(): returns at once unless Firebase.ready(); a failed pushJSON
\* is not looked at again
sendAlert(types, ready) == IF ready THEN types ELSE {}

\* one block of checkAlerts(): whether it takes the flag from true to false
Clears(out, active) == active /\ ~FlagAfter(out, active)

\* checkAlerts()
checkAlerts ==
  /\ SamplingAt("alerts")
  /\ gasAlertActive' = FlagAfter(GasHigh, gasAlertActive)
  /\ tempAlertActive' = FlagAfter(TempOut, tempAlertActive)
  /\ humidityAlertSent' = FlagAfter(HumOut, humidityAlertSent)
  /\ pressureAlertSent' = FlagAfter(PresLow, pressureAlertSent)
  /\ sent' = AlertTypes(Raises(GasHigh, gasAlertActive),
                        Raises(TempOut, tempAlertActive),
                        Raises(HumOut, humidityAlertSent),
                        Raises(PresLow, pressureAlertSent))
  /\ cleared' = AlertTypes(Clears(GasHigh, gasAlertActive),
                           Clears(TempOut, tempAlertActive),
                           Clears(HumOut, humidityAlertSent),
                           Clears(PresLow, pressureAlertSent))
  /\ delivered' = sendAlert(sent', sinkReady)
  /\ spc' = "read"
  /\ pc' = IF firmware = "v2" THEN "net" ELSE pc
  /\ sample' = <<>> /\ calRuns' = 0 /\ rebooted' = "no"
  /\ calSamples' = <<>> /\ uploaded' = {} /\ stored' = {}
  /\ UNCHANGED <<firmware, temperature, humidity, pressure, gasRaw, gasPPM,
                 Ro, sensorError, preferences, prefsStarted, commands, json>>
  /\ UNCHANGED elsewhere

---------------------------------------------------------------------------
(* Uploads                                                                 *)

\* the holder of sensorDataMutex (v3): the sensor task, from the take of
\* readSensors to its give; the critical sections of the network task lie
\* inside one step
sensorDataMutex == IF firmware = "v3" /\ spc = "give" THEN "sensor" ELSE "free"

\* xSemaphoreTake(sensorDataMutex, pdMS_TO_TICKS(200)) == pdTRUE can fail
\* only when the take finds the mutex held
TakeTimesOut == IF sensorDataMutex = "free" THEN {FALSE} ELSE BOOLEAN

\* the five shared sensor fields as a record carries them
LiveFields == <<temperature, humidity, pressure, gasRaw, gasPPM>>

\* v2 uploadLiveData(): the update handed to updateNode
uploadLiveData_v2 ==
  [live |-> LiveFields,
   alerts |-> <<gasAlertActive, tempAlertActive>>,
   sensor_ro |-> <<Ro>>,
   last_seen |-> TRUE]

\* v3 uploadLiveData(): the sensor fields are set only under the mutex; the
\* rest of the update is built and sent whether or not the take succeeded
uploadLiveData_v3(timedOut) ==
  [live |-> IF timedOut THEN <<>> ELSE LiveFields,
   alerts |-> <<gasAlertActive, tempAlertActive>>,
   sensor_ro |-> <<>>,
   last_seen |-> FALSE]

\* storeHistoricalData(): the record handed to pushJSON
storeHistoricalData == <<temperature, humidity, pressure, gasPPM>>

\* v2 loop(): the upload and the history block, each when its interval has
\* passed and WiFi is up; both return at once unless Firebase.ready()
Upload_v2 ==
  /\ firmware = "v2" /\ SamplingAt("upload")
  /\ \E upDue \in BOOLEAN, histDue \in BOOLEAN, ready \in BOOLEAN :
       /\ uploaded' = IF upDue /\ ready THEN {uploadLiveData_v2} ELSE {}
       /\ stored' = IF histDue /\ ready THEN {storeHistoricalData} ELSE {}
  /\ spc' = "alerts"
  /\ sample' = <<>> /\ sent' = {} /\ delivered' = {} /\ cleared' = {}
  /\ calRuns' = 0 /\ rebooted' = "no" /\ calSamples' = <<>>
  /\ UNCHANGED <<firmware, pc, temperature, humidity, pressure, gasRaw,
                 gasPPM, Ro, sensorError, gasAlertActive, tempAlertActive,
                 humidityAlertSent, pressureAlertSent, preferences,
                 prefsStarted, commands, json>>
  /\ UNCHANGED elsewhere

\* v3 networkTaskImpl: the upload and the history block, each when its
\* interval has passed; storeHistoricalData returns when its take times out
Upload_v3 ==
  /\ firmware = "v3" /\ pc = "upload"
  /\ \E upDue \in BOOLEAN, histDue \in BOOLEAN,
        upTimedOut \in TakeTimesOut, histTimedOut \in TakeTimesOut :
       /\ uploaded' = IF upDue THEN {uploadLiveData_v3(upTimedOut)} ELSE {}
       /\ stored' = IF histDue /\ ~histTimedOut
                    THEN {storeHistoricalData} ELSE {}
  /\ pc' = "net"
  /\ sample' = <<>> /\ sent' = {} /\ delivered' = {} /\ cleared' = {}
  /\ calRuns' = 0 /\ rebooted' = "no" /\ calSamples' = <<>>
  /\ UNCHANGED <<firmware, spc, temperature, humidity, pressure, gasRaw,
                 gasPPM, Ro, sensorError, gasAlertActive, tempAlertActive,
                 humidityAlertSent, pressureAlertSent, preferences,
                 prefsStarted, commands, json>>
  /\ UNCHANGED elsewhere

---------------------------------------------------------------------------
(* Remote commands                                                         *)

\* where the command path goes when checkFirebaseCommands returns
AfterCommands == IF firmware = "v2" THEN "sensors" ELSE "upload"

\* Firebase.RTDB.setBool(<commands>/<c>, false): the write may fail, and the
\* sketch does not look at its result
setBoolFalse(c, ok) == IF ok THEN [commands EXCEPT ![c] = FALSE] ELSE commands

\* the command check of loop() / networkTaskImpl: skipped unless the 5 s
\* interval has passed and the link is up; checkFirebaseCommands() then
\* reads the commands node once
PollCommands ==
  /\ pc = "net"
  /\ \E due \in BOOLEAN :
       IF due
       THEN /\ json' = {c \in Commands : commands[c]}
            /\ pc' = IF commands["calibrate"] THEN "calibrating" ELSE "dispatch"
       ELSE /\ json' = {}
            /\ pc' = AfterCommands
  /\ Quiet
  /\ UNCHANGED <<firmware, spc, temperature, humidity, pressure, gasRaw,
                 gasPPM, Ro, sensorError, gasAlertActive, tempAlertActive,
                 humidityAlertSent, pressureAlertSent, preferences,
                 prefsStarted, commands>>
  /\ UNCHANGED elsewhere

\* the calibrate branch: calibrateMQ135(), then the command is cleared
CalibrateCommand ==
  /\ pc = "calibrating"
  /\ \E run \in CalibrationRuns, ok \in BOOLEAN :
       /\ Ro' = CalibrateRo(run)
       /\ preferences' = putFloat(preferences, prefsStarted, CalibrateRo(run))
       /\ commands' = setBoolFalse("calibrate", ok)
       /\ calSamples' = run
  /\ calRuns' = 1
  /\ pc' = "dispatch"
  /\ sample' = <<>> /\ sent' = {} /\ delivered' = {} /\ cleared' = {}
  /\ rebooted' = "no"
  /\ uploaded' = {} /\ stored' = {}
  /\ UNCHANGED <<firmware, spc, temperature, humidity, pressure, gasRaw,
                 gasPPM, sensorError, gasAlertActive, tempAlertActive,
                 humidityAlertSent, pressureAlertSent, prefsStarted, json>>
  /\ UNCHANGED elsewhere

\* the reboot branch: clear the command, ESP.restart()
RebootCommand ==
  /\ pc = "dispatch" /\ "reboot" \in json
  /\ \E ok \in BOOLEAN : commands' = setBoolFalse("reboot", ok)
  /\ Booted("reboot")
  /\ UNCHANGED <<firmware, preferences>>
  /\ UNCHANGED elsewhere

\* the reset_preferences branch: preferences.clear(), force_calib = true,
\* clear the command, ESP.restart()
ResetPreferencesCommand ==
  /\ pc = "dispatch" /\ "reboot" \notin json /\ "reset_preferences" \in json
  /\ preferences' = putBool(clear(preferences, prefsStarted), prefsStarted, TRUE)
  /\ \E ok \in BOOLEAN : commands' = setBoolFalse("reset_preferences", ok)
  /\ Booted("reset_preferences")
  /\ UNCHANGED firmware
  /\ UNCHANGED elsewhere

\* the test_display branch (if requested), and the return
FinishCommands ==
  /\ pc = "dispatch" /\ "reboot" \notin json /\ "reset_preferences" \notin json
  /\ \E ok \in BOOLEAN :
       commands' = IF "test_display" \in json
                   THEN setBoolFalse("test_display", ok) ELSE commands
  /\ json' = {}
  /\ pc' = AfterCommands
  /\ Quiet
  /\ UNCHANGED <<firmware, spc, temperature, humidity, pressure, gasRaw,
                 gasPPM, Ro, sensorError, gasAlertActive, tempAlertActive,
                 humidityAlertSent, pressureAlertSent, preferences,
                 prefsStarted>>
  /\ UNCHANGED elsewhere

\* the allowlist of functions/index.js
ALLOWED_COMMANDS == {"calibrate", "reboot", "reset_preferences", "test_display"}

\* the action field of a request body; "" is a missing or empty field
RequestedActions == ALLOWED_COMMANDS \cup {"", "format_flash"}

\* update({[action]: true}) on the commands node
UpdateCommand(node, action) ==
  [c \in DOMAIN node \cup {action} |-> IF c = action THEN TRUE ELSE node[c]]

\* POST /command without the allowlist test
postCommand_unvalidated(action) ==
  IF action = ""
  THEN [code |-> 400, commands |-> commands]
  ELSE [code |-> 200, commands |-> UpdateCommand(commands, action)]

\* POST /command: the status code and the commands node it leaves
postCommand(action) ==
  IF action = ""
  THEN [code |-> 400, commands |-> commands]
  ELSE IF action \notin ALLOWED_COMMANDS
  THEN [code |-> 400, commands |-> commands]
  ELSE [code |-> 200, commands |-> UpdateCommand(commands, action)]

\* a valid POST /command reaching the device's commands node
PostCommand ==
  /\ Cardinality({c \in Commands : commands[c]}) < MaxPending
  /\ \E action \in Commands : commands' = postCommand(action).commands
  /\ UNCHANGED <<firmware, pc, spc, temperature, humidity, pressure, gasRaw,
                 gasPPM, Ro, sensorError, gasAlertActive, tempAlertActive,
                 humidityAlertSent, pressureAlertSent, preferences,
                 prefsStarted, json, sample, sent, delivered, cleared,
                 calRuns, rebooted, calSamples, uploaded, stored>>
  /\ UNCHANGED elsewhere

---------------------------------------------------------------------------
(* The gas model on its own: calculateGasPPM applied twice to inputs drawn  *)
(* from the sets below, from whatever the previous cycle left in gasPPM     *)

AdcInputs == {0, 200, 2048, 3608, 4095}
TempInputs == {NaN, -400, 0, 200, 850}
HumInputs == {NaN, 0, 500, 1000}
RoInputs == {NaN, 0, 1895, 10000, Inf}
PreviousPPM == {0, 400}

InitGasModel ==
  /\ firmware \in {"v2", "v3"}
  /\ pc = "gas_model" /\ spc = "off"
  /\ gasRaw \in AdcInputs
  /\ temperature \in TempInputs /\ humidity \in HumInputs /\ pressure = 0
  /\ Ro \in RoInputs
  /\ gasPPM \in PreviousPPM
  /\ sensorError = FALSE
  /\ gasAlertActive = FALSE /\ tempAlertActive = FALSE
  /\ humidityAlertSent = FALSE /\ pressureAlertSent = FALSE
  /\ preferences = EmptyStore
  /\ prefsStarted = FALSE
  /\ commands = [c \in Commands |-> FALSE]
  /\ json = {}
  /\ sample = <<>> /\ sent = {} /\ delivered = {} /\ cleared = {}
  /\ calRuns = 0
  /\ rebooted = "no"
  /\ calSamples = <<>> /\ uploaded = {} /\ stored = {}
  /\ clock = StartOfTime /\ live = <<>> /\ last_seen = 0
  /\ response = NoResponse
  /\ SinkIdle /\ CalibrationIdle /\ MutexIdle /\ WiFiIdle

\* gasPPM = calculateGasPPM(gasRaw) / calculateGasPPM(gasRaw, temperature,
\* humidity), the first and the second time
ComputePPM ==
  /\ pc \in {"gas_model", "evaluated"}
  /\ gasPPM' = calculateGasPPM(firmware, gasRaw, temperature, humidity, Ro)
  /\ pc' = IF pc = "gas_model" THEN "evaluated" ELSE "reevaluated"
  /\ UNCHANGED <<firmware, spc, temperature, humidity, pressure, gasRaw, Ro,
                 sensorError, gasAlertActive, tempAlertActive,
                 humidityAlertSent, pressureAlertSent, preferences,
                 prefsStarted, commands, json, sample, sent, delivered,
                 cleared, calRuns, rebooted, calSamples, uploaded, stored>>
  /\ UNCHANGED elsewhere

NextGasModel == ComputePPM

SpecGasModel == InitGasModel /\ [][NextGasModel]_vars

---------------------------------------------------------------------------
(* The middleware (functions/index.js) in front of the database, with the  *)
(* device writing the nodes it reads                                       *)

GAS_PPM_THRESHOLD == 300

\* the 30 s presence threshold, in clock units of 10 s
PresenceThreshold == 3
\* GET /live: the status code, the derived air quality and the presence
getLive ==
  IF live = <<>>
  THEN [code |-> 404, status |-> "", air_quality_status |-> ""]
  ELSE LET gasPpm == live[1]
           lastSeen == last_seen
           dataAge == clock - lastSeen
           isOnline == dataAge < PresenceThreshold
       IN [code |-> 200,
           status |-> IF isOnline THEN "online" ELSE "offline",
           air_quality_status |->
             IF gasPpm > GAS_PPM_THRESHOLD THEN "POOR" ELSE "GOOD"]

\* the live node after updateNode merged an upload into it
MergeLive(u) ==
  <<IF u.live # <<>> THEN u.live[5]
    ELSE IF live # <<>> THEN live[1] ELSE 0,
    clock>>

InitApi ==
  /\ firmware \in {"v2", "v3"}
  /\ pc = "cloud_boot"
  /\ spc \in IF firmware = "v3" THEN {"read", "give"} ELSE {"read"}
  /\ temperature = 250 /\ humidity = 500 /\ pressure = 10000
  /\ gasRaw = 2048 /\ gasPPM \in {100, 400}
  /\ Ro = 1895 /\ sensorError = FALSE
  /\ gasAlertActive = FALSE /\ tempAlertActive = FALSE
  /\ humidityAlertSent = FALSE /\ pressureAlertSent = FALSE
  /\ preferences = EmptyStore /\ prefsStarted = TRUE
  /\ commands = [c \in Commands |-> FALSE]
  /\ json = <<>>
  /\ sample = <<>> /\ sent = {} /\ delivered = {} /\ cleared = {}
  /\ calRuns = 0
  /\ rebooted = "no"
  /\ calSamples = <<>> /\ uploaded = {} /\ stored = {}
  /\ clock = StartOfTime /\ live = <<>> /\ last_seen = 0
  /\ response = NoResponse
  /\ SinkIdle /\ CalibrationIdle /\ MutexIdle /\ WiFiIdle

device == <<firmware, spc, temperature, humidity, pressure, gasRaw,
            gasPPM, Ro, sensorError, gasAlertActive, tempAlertActive,
            humidityAlertSent, pressureAlertSent, preferences, prefsStarted,
            json, sample, sent, delivered, cleared, calRuns, rebooted,
            calSamples, uploaded, stored, sinkReady, calibrationLoop,
            mutexUsers, wifiLink>>

\* ten seconds pass
Tick ==
  /\ pc \in {"cloud_boot", "cloud"}
  /\ clock < MaxClock
  /\ clock' = clock + 1
  /\ response' = NoResponse
  /\ UNCHANGED <<device, pc, commands, live, last_seen>>

\* initFirebase with Firebase ready: firebaseReady is set and
\* setupPresenceDetection stamps meta/last_seen
setupPresenceDetection ==
  /\ pc = "cloud_boot"
  /\ pc' = "cloud"
  /\ last_seen' = clock
  /\ response' = NoResponse
  /\ UNCHANGED <<device, commands, clock, live>>

\* the device restarts (ESP.restart, the watchdog, or a power cycle)
DeviceRestart ==
  /\ pc = "cloud"
  /\ pc' = "cloud_boot"
  /\ response' = NoResponse
  /\ UNCHANGED <<device, commands, clock, live, last_seen>>

\* uploadLiveData of the running firmware, applied to the database
DeviceUpload ==
  /\ pc = "cloud"
  /\ \E timedOut \in TakeTimesOut :
       LET u == IF firmware = "v2" THEN uploadLiveData_v2
                ELSE uploadLiveData_v3(timedOut)
       IN /\ live' = MergeLive(u)
          /\ last_seen' = IF u.last_seen THEN clock ELSE last_seen
  /\ response' = NoResponse
  /\ UNCHANGED <<device, pc, commands, clock>>

\* a GET /live request, with or without a valid Firebase ID token
GetLiveRequest ==
  /\ pc \in {"cloud_boot", "cloud"}
  /\ \E authorized \in BOOLEAN :
       LET r == getLive
       IN response' = [endpoint |-> "live", authorized |-> authorized,
                       action |-> "", code |-> r.code, status |-> r.status,
                       air_quality_status |-> r.air_quality_status]
  /\ UNCHANGED <<device, pc, commands, clock, live, last_seen>>

\* a POST /command request, with or without a valid Firebase ID token
PostCommandRequest ==
  /\ pc \in {"cloud_boot", "cloud"}
  /\ \E authorized \in BOOLEAN, action \in RequestedActions :
       LET r == postCommand(action)
       IN /\ commands' = r.commands
          /\ response' = [endpoint |-> "command", authorized |-> authorized,
                          action |-> action, code |-> r.code, status |-> "",
                          air_quality_status |-> ""]
  /\ UNCHANGED <<device, pc, clock, live, last_seen>>

NextApi ==
  \/ Tick
  \/ setupPresenceDetection
  \/ DeviceRestart
  \/ DeviceUpload
  \/ GetLiveRequest
  \/ PostCommandRequest

SpecApi == InitApi /\ [][NextApi]_vars

---------------------------------------------------------------------------

Next ==
  \/ Setup_v2
  \/ Setup_v3
  \/ PowerCycle
  \/ readSensors
  \/ readSensorsGive
  \/ Upload_v2
  \/ Upload_v3
  \/ checkAlerts
  \/ PollCommands
  \/ CalibrateCommand
  \/ RebootCommand
  \/ ResetPreferencesCommand
  \/ FinishCommands
  \/ PostCommand

Spec == Init /\ [][Next]_vars

---------------------------------------------------------------------------
(* The sampling path with a sink that comes and goes                       *)

\* Firebase stops or starts being ready (token refresh, link, server)
SinkChange ==
  /\ pc # "boot"
  /\ sinkReady' = ~sinkReady
  /\ UNCHANGED <<firmware, pc, spc, temperature, humidity, pressure, gasRaw,
                 gasPPM, Ro, sensorError, gasAlertActive, tempAlertActive,
                 humidityAlertSent, pressureAlertSent, preferences,
                 prefsStarted, commands, json, sample, sent, delivered,
                 cleared, calRuns, rebooted, calSamples, uploaded, stored>>
  /\ UNCHANGED <<cloud, calibrationLoop, mutexUsers, wifiLink>>

NextAlerts ==
  \/ Setup_v2
  \/ Setup_v3
  \/ readSensors
  \/ readSensorsGive
  \/ Upload_v2
  \/ checkAlerts
  \/ PollCommands
  \/ FinishCommands
  \/ SinkChange

SpecAlerts == Init /\ [][NextAlerts]_vars

---------------------------------------------------------------------------
(* calibrateMQ135, statement by statement, with the time each delay takes   *)
(* and the task watchdog of the caller                                      *)

WATCHDOG_TIMEOUT == 30
CALIBRATION_SAMPLE_INTERVAL == 250
SettleDelay == 5000
DoneDelay == 3000

\* .timeout_ms = WATCHDOG_TIMEOUT * 1000
WatchdogTimeoutMs == WATCHDOG_TIMEOUT * 1000

\* what analogRead(MQ135_PIN) returns to the sampling loop
CalibrationAdc == {0, 2048, 4095}

\* a sampling loop that waits 8 s for every sample
LoopDelay_stalled(i) == 8000

\* delay(CALIBRATION_SAMPLE_INTERVAL) at the end of iteration i
LoopDelay(i) == CALIBRATION_SAMPLE_INTERVAL

\* if (i % 5 == 0) esp_task_wdt_reset()
FeedsWatchdog(i) == i % 5 = 0

\* rs = rs / CALIBRATION_SAMPLE_TIMES; Ro = rs / RO_CLEAN_AIR_FACTOR
RoOfSum(sum) ==
  FDiv(FDiv(sum, CALIBRATION_SAMPLE_TIMES, 1), RO_CLEAN_AIR_FACTOR, 10)

\* the positions inside calibrateMQ135
CalPositions ==
  {"cal_settle", "cal_settled", "cal_sample", "cal_feed", "cal_finish",
   "cal_final"}

\* calibrateMQ135 has just been entered: from setup() of the v2 sketch, or
\* from checkFirebaseCommands of either; the v3 sketch has ended its
\* preferences handle by then
InitCalibration ==
  /\ firmware \in {"v2", "v3"}
  /\ pc = "cal_settle" /\ spc = "off"
  /\ temperature = 0 /\ humidity = 0 /\ pressure = 0
  /\ gasRaw = 0 /\ gasPPM = 0
  /\ preferences \in {EmptyStore, putFloat(EmptyStore, TRUE, 1895)}
  /\ Ro = getFloat(preferences, RoDefault)
  /\ prefsStarted = (firmware = "v2")
  /\ sensorError = FALSE
  /\ gasAlertActive = FALSE /\ tempAlertActive = FALSE
  /\ humidityAlertSent = FALSE /\ pressureAlertSent = FALSE
  /\ commands = [c \in Commands |-> FALSE]
  /\ json = {}
  /\ sample = <<>> /\ sent = {} /\ delivered = {} /\ cleared = {}
  /\ calRuns = 0 /\ rebooted = "no"
  /\ calSamples = <<>> /\ uploaded = {} /\ stored = {}
  /\ CloudIdle /\ SinkIdle /\ CalibrationIdle /\ MutexIdle /\ WiFiIdle

\* what a step inside calibrateMQ135 leaves alone
outsideCalibration ==
  <<firmware, spc, temperature, humidity, pressure, gasRaw, gasPPM,
    sensorError, gasAlertActive, tempAlertActive, humidityAlertSent,
    pressureAlertSent, prefsStarted, commands, json, sample, sent,
    delivered, cleared, rebooted, calSamples, uploaded, stored, cloud,
    sinkReady, mutexUsers, wifiLink>>

\* delay(5000)
CalSettle ==
  /\ pc = "cal_settle"
  /\ sinceReset' = sinceReset + SettleDelay
  /\ pc' = "cal_settled"
  /\ UNCHANGED <<outsideCalibration, calIndex, rsSum, Ro, preferences,
                 calRuns>>

\* esp_task_wdt_reset(); float rs = 0; the loop starts with i = 0
CalSettled ==
  /\ pc = "cal_settled"
  /\ sinceReset' = 0
  /\ rsSum' = 0 /\ calIndex' = 0
  /\ pc' = IF 0 < CALIBRATION_SAMPLE_TIMES THEN "cal_sample" ELSE "cal_finish"
  /\ UNCHANGED <<outsideCalibration, Ro, preferences, calRuns>>

\* one iteration up to its delay: analogRead, rs += rsTemp, the progress
\* display, delay(CALIBRATION_SAMPLE_INTERVAL)
CalSample ==
  /\ pc = "cal_sample"
  /\ \E adcValue \in CalibrationAdc :
       rsSum' = FAdd(rsSum, SensorRs(Voltage(adcValue)))
  /\ sinceReset' = sinceReset + LoopDelay(calIndex)
  /\ pc' = "cal_feed"
  /\ UNCHANGED <<outsideCalibration, calIndex, Ro, preferences, calRuns>>

\* the end of an iteration: the watchdog reset every fifth sample, i++ and
\* the loop test
CalFeed ==
  /\ pc = "cal_feed"
  /\ sinceReset' = IF FeedsWatchdog(calIndex) THEN 0 ELSE sinceReset
  /\ calIndex' = calIndex + 1
  /\ pc' = IF calIndex + 1 < CALIBRATION_SAMPLE_TIMES
            THEN "cal_sample" ELSE "cal_finish"
  /\ UNCHANGED <<outsideCalibration, rsSum, Ro, preferences, calRuns>>

\* after the loop: Ro is computed, assigned and put, the result is shown
\* for 3 s
CalFinish ==
  /\ pc = "cal_finish"
  /\ Ro' = RoOfSum(rsSum)
  /\ preferences' = putFloat(preferences, prefsStarted, RoOfSum(rsSum))
  /\ sinceReset' = sinceReset + DoneDelay
  /\ pc' = "cal_final"
  /\ UNCHANGED <<outsideCalibration, calIndex, rsSum, calRuns>>

\* esp_task_wdt_reset() and the return
CalReturn ==
  /\ pc = "cal_final"
  /\ sinceReset' = 0
  /\ calRuns' = 1
  /\ pc' = "calibrated"
  /\ UNCHANGED <<outsideCalibration, calIndex, rsSum, Ro, preferences>>

NextCalibration ==
  \/ CalSettle
  \/ CalSettled
  \/ CalSample
  \/ CalFeed
  \/ CalFinish
  \/ CalReturn

SpecCalibration == InitCalibration /\ [][NextCalibration]_vars

---------------------------------------------------------------------------
(* The v3 sketch around sensorDataMutex, statement by statement: the sensor *)
(* task (readSensors, updateDisplay) and the network task (the calibrate    *)
(* command, uploadLiveData, storeHistoricalData, the /status reply).        *)
(* json is here the FirebaseJson / String local the network task fills.     *)

\* what one readSensors call reads in this specification
MutexSamples ==
  { <<200, 500, 10000, 2427>>, <<351, 801, 9799, 3000>>,
    <<NaN, 550, 10000, 0>> }

\* a take whose result is not looked at
xSemaphoreTake_unchecked(sem) == TRUE

\* xSemaphoreTake(sensorDataMutex, ...) == pdTRUE: the semaphore is there
xSemaphoreTake(sem) == sem = 1

\* a give that is never reached
xSemaphoreGive_missing(sem) == sem

\* xSemaphoreGive(sensorDataMutex): the count of a binary semaphore after it
xSemaphoreGive(sem) == 1

\* a successful take by task
TakeFor(task) == semaphore' = 0 /\ holders' = holders \cup {task}

\* the give that ends the section of task
GiveFor(task) ==
  semaphore' = xSemaphoreGive(semaphore) /\ holders' = holders \ {task}

\* the positions between a successful take and the give, per task
SensorSection == {"w_temp", "w_hum", "w_pres", "w_raw", "w_ppm", "give", "draw"}
NetworkSection ==
  {"up_copy", "up_give", "h_copy", "h_give", "tg_copy", "tg_give"}

\* setup() has created the semaphore, given it and started the two tasks
InitMutex ==
  /\ firmware = "v3"
  /\ pc = "net" /\ spc = "read"
  /\ temperature = 0 /\ humidity = 0 /\ pressure = 0
  /\ gasRaw = 0 /\ gasPPM = 0 /\ Ro = RoDefault
  /\ sensorError \in BOOLEAN
  /\ gasAlertActive = FALSE /\ tempAlertActive = FALSE
  /\ humidityAlertSent = FALSE /\ pressureAlertSent = FALSE
  /\ preferences = EmptyStore /\ prefsStarted = FALSE
  /\ commands = [c \in Commands |-> FALSE]
  /\ json = <<>>
  /\ sample = <<>> /\ sent = {} /\ delivered = {} /\ cleared = {}
  /\ calRuns = 0 /\ rebooted = "no"
  /\ calSamples = <<>> /\ uploaded = {} /\ stored = {}
  /\ semaphore = 1 /\ holders = {} /\ statusReply = {}
  /\ snapshot = <<0, 0, 0, 0, 0>>
  /\ CloudIdle /\ SinkIdle /\ CalibrationIdle /\ WiFiIdle

\* what no step of this specification changes
outsideMutex ==
  <<firmware, sensorError, gasAlertActive, tempAlertActive,
    humidityAlertSent, pressureAlertSent, preferences, prefsStarted,
    commands, sent, delivered, cleared, calRuns, rebooted, calSamples,
    cloud, sinkReady, calibrationLoop, wifiLink>>

shared == <<temperature, humidity, pressure, gasRaw, gasPPM>>

\* nothing is sent by this step
NothingSent == uploaded' = {} /\ stored' = {} /\ statusReply' = {}

\* readSensors(): return if sensorError, else the reads into the locals
SensorRead ==
  /\ spc = "read"
  /\ IF sensorError
     THEN sample' = <<>> /\ spc' = "display"
     ELSE (\E s \in MutexSamples : sample' = s) /\ spc' = "take"
  /\ NothingSent
  /\ UNCHANGED <<outsideMutex, shared, Ro, pc, json, semaphore, holders,
                 snapshot>>

\* readSensors(): xSemaphoreTake(sensorDataMutex, portMAX_DELAY) returns
SensorTake ==
  /\ spc = "take"
  /\ xSemaphoreTake(semaphore)
  /\ TakeFor("sensor")
  /\ spc' = "w_temp"
  /\ NothingSent
  /\ UNCHANGED <<outsideMutex, shared, Ro, pc, json, sample, snapshot>>

\* readSensors(): the five assignments, one at a time
SensorWrite ==
  /\ spc \in {"w_temp", "w_hum", "w_pres", "w_raw", "w_ppm"}
  /\ LET v == Validated(sample, temperature, humidity, pressure)
     IN /\ temperature' = IF spc = "w_temp" THEN v[1] ELSE temperature
        /\ humidity' = IF spc = "w_hum" THEN v[2] ELSE humidity
        /\ pressure' = IF spc = "w_pres" THEN v[3] ELSE pressure
        /\ gasRaw' = IF spc = "w_raw" THEN sample[4] ELSE gasRaw
        /\ gasPPM' = IF spc = "w_ppm"
                     THEN calculateGasPPM(firmware, gasRaw, temperature,
                                          humidity, Ro)
                     ELSE gasPPM
  /\ spc' = CASE spc = "w_temp" -> "w_hum"
              [] spc = "w_hum" -> "w_pres"
              [] spc = "w_pres" -> "w_raw"
              [] spc = "w_raw" -> "w_ppm"
              [] OTHER -> "give"
  /\ NothingSent
  /\ UNCHANGED <<outsideMutex, Ro, pc, json, sample, semaphore, holders,
                 snapshot>>

\* readSensors(): xSemaphoreGive; the sampling cycle is complete
SensorGive ==
  /\ spc = "give"
  /\ GiveFor("sensor")
  /\ snapshot' = <<temperature, humidity, pressure, gasRaw, gasPPM>>
  /\ spc' = "display"
  /\ NothingSent
  /\ UNCHANGED <<outsideMutex, shared, Ro, pc, json, sample>>

\* updateDisplay(), when due: the take succeeded
DisplayTake ==
  /\ spc = "display"
  /\ xSemaphoreTake(semaphore)
  /\ TakeFor("sensor")
  /\ spc' = "draw"
  /\ NothingSent
  /\ UNCHANGED <<outsideMutex, shared, Ro, pc, json, sample, snapshot>>

\* updateDisplay() is not due, or its take timed out after 100 ms
DisplaySkip ==
  /\ spc = "display"
  /\ \E due \in BOOLEAN : due => ~xSemaphoreTake(semaphore)
  /\ spc' = "read"
  /\ NothingSent
  /\ UNCHANGED <<outsideMutex, shared, Ro, pc, json, sample, semaphore,
                 holders, snapshot>>

\* updateDisplay(): the page is printed into the display buffer, then the
\* give
DisplayDraw ==
  /\ spc = "draw"
  /\ GiveFor("sensor")
  /\ spc' = "read"
  /\ NothingSent
  /\ UNCHANGED <<outsideMutex, shared, Ro, pc, json, sample, snapshot>>

\* checkFirebaseCommands(): nothing to do, or calibrateMQ135() assigns Ro
NetCommands ==
  /\ pc = "net"
  /\ \E calibrate \in BOOLEAN, run \in CalibrationRuns :
       Ro' = IF calibrate THEN CalibrateRo(run) ELSE Ro
  /\ pc' = "upload"
  /\ NothingSent
  /\ UNCHANGED <<outsideMutex, shared, spc, json, sample, semaphore, holders,
                 snapshot>>

\* a reader of the network task at its take: not due, or the take succeeded
ReaderTake(copy, skip) ==
  /\ \E due \in BOOLEAN :
       IF due
       THEN xSemaphoreTake(semaphore) /\ TakeFor("network") /\ pc' = copy
       ELSE UNCHANGED <<semaphore, holders>> /\ pc' = skip
  /\ NothingSent
  /\ UNCHANGED <<outsideMutex, shared, Ro, spc, json, sample, snapshot>>

\* a reader of the network task whose take timed out
ReaderTimeout(next) ==
  /\ ~xSemaphoreTake(semaphore)
  /\ json' = <<>>
  /\ pc' = next
  /\ NothingSent
  /\ UNCHANGED <<outsideMutex, shared, Ro, spc, sample, semaphore, holders,
                 snapshot>>

\* a reader of the network task copies fields into its local
ReaderCopy(fields, next) ==
  /\ json' = fields
  /\ pc' = next
  /\ NothingSent
  /\ UNCHANGED <<outsideMutex, shared, Ro, spc, sample, semaphore, holders,
                 snapshot>>

\* a reader of the network task gives the semaphore back
ReaderGive(next) ==
  /\ GiveFor("network")
  /\ pc' = next
  /\ NothingSent
  /\ UNCHANGED <<outsideMutex, shared, Ro, spc, json, sample, snapshot>>

UploadTake ==
  /\ pc = "upload"
  /\ ReaderTake("up_copy", "history")

UploadTimeout ==
  /\ pc = "upload"
  /\ ReaderTimeout("up_push")

UploadCopy ==
  /\ pc = "up_copy"
  /\ ReaderCopy(LiveFields, "up_give")

UploadGive ==
  /\ pc = "up_give"
  /\ ReaderGive("up_push")

\* uploadLiveData(): timestamp, meta and alert flags are set and updateNode
\* sends the update
UploadPush ==
  /\ pc = "up_push"
  /\ uploaded' = {[uploadLiveData_v3(TRUE) EXCEPT !.live = json]}
  /\ stored' = {} /\ statusReply' = {}
  /\ json' = <<>>
  /\ pc' = "history"
  /\ UNCHANGED <<outsideMutex, shared, Ro, spc, sample, semaphore, holders,
                 snapshot>>

HistoryTake ==
  /\ pc = "history"
  /\ ReaderTake("h_copy", "telegram")

HistoryTimeout ==
  /\ pc = "history"
  /\ ReaderTimeout("telegram")

HistoryCopy ==
  /\ pc = "h_copy"
  /\ ReaderCopy(storeHistoricalData, "h_give")

HistoryGive ==
  /\ pc = "h_give"
  /\ ReaderGive("h_push")

\* storeHistoricalData(): pushJSON sends the record
HistoryPush ==
  /\ pc = "h_push"
  /\ stored' = {json}
  /\ uploaded' = {} /\ statusReply' = {}
  /\ json' = <<>>
  /\ pc' = "telegram"
  /\ UNCHANGED <<outsideMutex, shared, Ro, spc, sample, semaphore, holders,
                 snapshot>>

StatusTake ==
  /\ pc = "telegram"
  /\ ReaderTake("tg_copy", "net")

StatusTimeout ==
  /\ pc = "telegram"
  /\ ReaderTimeout("tg_send")

StatusCopy ==
  /\ pc = "tg_copy"
  /\ ReaderCopy(<<temperature, humidity, gasPPM>>, "tg_give")

StatusGive ==
  /\ pc = "tg_give"
  /\ ReaderGive("tg_send")

\* handleTelegramCommands(): bot.sendMessage sends the /status reply
StatusSend ==
  /\ pc = "tg_send"
  /\ statusReply' = {json}
  /\ uploaded' = {} /\ stored' = {}
  /\ json' = <<>>
  /\ pc' = "net"
  /\ UNCHANGED <<outsideMutex, shared, Ro, spc, sample, semaphore, holders,
                 snapshot>>

NextMutex ==
  \/ SensorRead
  \/ SensorTake
  \/ SensorWrite
  \/ SensorGive
  \/ DisplayTake
  \/ DisplaySkip
  \/ DisplayDraw
  \/ NetCommands
  \/ UploadTake
  \/ UploadTimeout
  \/ UploadCopy
  \/ UploadGive
  \/ UploadPush
  \/ HistoryTake
  \/ HistoryTimeout
  \/ HistoryCopy
  \/ HistoryGive
  \/ HistoryPush
  \/ StatusTake
  \/ StatusTimeout
  \/ StatusCopy
  \/ StatusGive
  \/ StatusSend

SpecMutex == InitMutex /\ [][NextMutex]_vars

---------------------------------------------------------------------------
\* The WiFi check of loop() in v2.1.0 and handleWiFiDisconnect()

\* the uptime the model follows, in ms
MaxMillis == 300000

\* the uptime between two looks at the clock, in ms
MillisStep == 10000

\* "Try reconnect every 30s"
ReconnectInterval == 30000

WlStatuses == {"WL_CONNECTED", "WL_DISCONNECTED"}

TooManyAttempts_never(n) == FALSE

\* if (reconnectAttempts > 5)
TooManyAttempts(n) == n > 5

\* if (millis() - wifiReconnectTime > 30000)
ReconnectDue(now, last) == now - last > ReconnectInterval

\* power-on: the globals at their initialisers, setup() about to connect
InitWiFi ==
  /\ firmware = "v2"
  /\ pc = "wifi_setup" /\ spc = "idle"
  /\ temperature = 0 /\ humidity = 0 /\ pressure = 0
  /\ gasRaw = 0 /\ gasPPM = 0 /\ Ro = RoDefault
  /\ sensorError = FALSE
  /\ gasAlertActive = FALSE /\ tempAlertActive = FALSE
  /\ humidityAlertSent = FALSE /\ pressureAlertSent = FALSE
  /\ preferences = EmptyStore /\ prefsStarted = FALSE
  /\ commands = [c \in Commands |-> FALSE]
  /\ json = <<>>
  /\ sample = <<>> /\ sent = {} /\ delivered = {} /\ cleared = {}
  /\ calRuns = 0 /\ rebooted = "no"
  /\ calSamples = <<>> /\ uploaded = {} /\ stored = {}
  /\ millis = 0 /\ wifiReconnectTime = 0 /\ reconnectAttempts = 0
  /\ wifiConnected = FALSE
  /\ wlStatus \in WlStatuses
  /\ CloudIdle /\ SinkIdle /\ CalibrationIdle /\ MutexIdle

\* what no step of this specification changes
outsideWiFi ==
  <<firmware, spc, temperature, humidity, pressure, gasRaw, gasPPM, Ro,
    sensorError, gasAlertActive, tempAlertActive, humidityAlertSent,
    pressureAlertSent, preferences, prefsStarted, commands, json, sample,
    sent, delivered, cleared, calRuns, calSamples, uploaded, stored,
    cloud, sinkReady, calibrationLoop, mutexUsers>>

\* time goes by, wherever the program is
TimePasses ==
  /\ millis + MillisStep <= MaxMillis
  /\ millis' = millis + MillisStep
  /\ UNCHANGED <<pc, wifiReconnectTime, reconnectAttempts, wifiConnected,
                 wlStatus, rebooted>>
  /\ UNCHANGED outsideWiFi

\* the access point comes or goes
LinkChange ==
  /\ wlStatus' \in WlStatuses \ {wlStatus}
  /\ UNCHANGED <<pc, millis, wifiReconnectTime, reconnectAttempts,
                 wifiConnected, rebooted>>
  /\ UNCHANGED outsideWiFi

\* connectWiFi(): wifiConnected is what the link is when the wait ends
connectWiFi ==
  /\ pc = "wifi_setup"
  /\ wifiConnected' = (wlStatus = "WL_CONNECTED")
  /\ pc' = "wifi_loop"
  /\ rebooted' = "no"
  /\ UNCHANGED <<millis, wifiReconnectTime, reconnectAttempts, wlStatus>>
  /\ UNCHANGED outsideWiFi

\* loop(), WiFi.status() == WL_CONNECTED
LoopConnected ==
  /\ pc = "wifi_loop"
  /\ wlStatus = "WL_CONNECTED"
  /\ wifiConnected' = TRUE
  /\ reconnectAttempts' = 0
  /\ UNCHANGED <<pc, millis, wifiReconnectTime, wlStatus, rebooted>>
  /\ UNCHANGED outsideWiFi

\* loop(), WiFi.status() != WL_CONNECTED: handleWiFiDisconnect() up to the
\* test of the counter
handleWiFiDisconnect ==
  /\ pc = "wifi_loop"
  /\ wlStatus # "WL_CONNECTED"
  /\ IF ReconnectDue(millis, wifiReconnectTime)
       THEN /\ wifiConnected' = FALSE
            /\ reconnectAttempts' = reconnectAttempts + 1
            /\ pc' = "wifi_attempt"
       ELSE UNCHANGED <<wifiConnected, reconnectAttempts, pc>>
  /\ UNCHANGED <<millis, wifiReconnectTime, wlStatus, rebooted>>
  /\ UNCHANGED outsideWiFi

\* delay(1000); ESP.restart(): the globals are back at their initialisers;
\* rebooted records why the device restarted
TooManyRestart ==
  /\ pc = "wifi_attempt"
  /\ TooManyAttempts(reconnectAttempts)
  /\ millis' = 0 /\ wifiReconnectTime' = 0 /\ reconnectAttempts' = 0
  /\ wifiConnected' = FALSE
  /\ pc' = "wifi_setup"
  /\ rebooted' = "wifi"
  /\ UNCHANGED wlStatus
  /\ UNCHANGED outsideWiFi

\* WiFi.disconnect(); WiFi.begin(); wifiReconnectTime = millis()
Reconnect ==
  /\ pc = "wifi_attempt"
  /\ ~TooManyAttempts(reconnectAttempts)
  /\ wifiReconnectTime' = millis
  /\ pc' = "wifi_loop"
  /\ UNCHANGED <<millis, reconnectAttempts, wifiConnected, wlStatus,
                 rebooted>>
  /\ UNCHANGED outsideWiFi

NextWiFi ==
  \/ TimePasses
  \/ LinkChange
  \/ connectWiFi
  \/ LoopConnected
  \/ handleWiFiDisconnect
  \/ TooManyRestart
  \/ Reconnect

SpecWiFi == InitWiFi /\ [][NextWiFi]_vars

---------------------------------------------------------------------------
(* Properties                                                              *)

\* the steps that are one call of checkAlerts, of readSensors, one setup()
CheckAlertsStep == SamplingAt("alerts") /\ spc' = "read"
ReadSensorsStep == SamplingAt("read") /\ spc' \in {"upload", "give"}
BootStep == pc = "boot" /\ pc' = "net"
CalibrateCommandStep == pc = "calibrating" /\ pc' = "dispatch"

\* C1: every alert state is Inactive at boot; a checkAlerts call emits an
\* alert of a type exactly when its value is out of band and its state was
\* Inactive (so a value that stays out of band emits nothing more until it
\* has been back in band), and no other step emits an alert.
C1_OneAlertPerExcursion ==
  /\ [](pc = "boot" =>
          ~(gasAlertActive \/ tempAlertActive
            \/ humidityAlertSent \/ pressureAlertSent))
  /\ [][IF CheckAlertsStep
        THEN /\ ("gas_leak" \in sent') = (GasHigh /\ ~gasAlertActive)
             /\ ("temperature" \in sent') = (TempOut /\ ~tempAlertActive)
             /\ ("humidity" \in sent') = (HumOut /\ ~humidityAlertSent)
             /\ ("pressure" \in sent') = (PresLow /\ ~pressureAlertSent)
             /\ gasAlertActive' = GasHigh
             /\ tempAlertActive' = TempOut
             /\ humidityAlertSent' = HumOut
             /\ pressureAlertSent' = PresLow
        ELSE sent' = {} \/ sent' = sent]_vars

\* the second and third sample of [100, 400, 400, 100] ppm: gas is still
\* above the threshold, the state stays Active and nothing is emitted
C1_Witness ==
  /\ firmware = "v2" /\ pc = "net"
  /\ GasHigh /\ gasAlertActive /\ "gas_leak" \notin sent
  /\ sent = {} /\ cleared = {}

\* C2: a value equal to its threshold (gas 300 ppm, temperature 10.0 or
\* 35.0 degC, humidity 30.0 or 80.0 %, pressure 980.0 hPa) is in band: the
\* state after checkAlerts is Active exactly for a value strictly beyond a
\* threshold; pressure has no high side and gas no low side.
C2_StrictThresholds ==
  [][CheckAlertsStep =>
       /\ gasAlertActive' = (gasPPM # NaN /\ gasPPM > 300)
       /\ tempAlertActive' = (temperature > 350 \/ temperature < 100)
       /\ humidityAlertSent' = (humidity > 800 \/ humidity < 300)
       /\ pressureAlertSent' = (pressure < 9800)
       /\ (gasPPM = 300 => "gas_leak" \notin sent')
       /\ (temperature \in {100, 350} => "temperature" \notin sent')
       /\ (humidity \in {300, 800} => "humidity" \notin sent')
       /\ (pressure >= 9800 => "pressure" \notin sent')
       /\ (gasPPM # NaN /\ gasPPM <= 300 => "gas_leak" \notin sent')]_vars

\* checkAlerts has just run on gas = 300 ppm, 35.0 degC, 80.0 %, 980.0 hPa
C2_Witness ==
  /\ firmware = "v2" /\ pc = "net"
  /\ gasPPM = 300 /\ temperature = 350 /\ humidity = 800 /\ pressure = 9800
  /\ ~gasAlertActive /\ ~tempAlertActive
  /\ ~humidityAlertSent /\ ~pressureAlertSent
  /\ sent = {}

\* C3: a checkAlerts call takes a state from Active to Inactive exactly when
\* the value is inside the band, and emits nothing for that transition; no
\* step other than checkAlerts and a reboot changes an alert state.
C3_ClearsSilently ==
  [][IF CheckAlertsStep
     THEN /\ (gasAlertActive => (~gasAlertActive' <=> ~GasHigh))
          /\ (tempAlertActive => (~tempAlertActive' <=> ~TempOut))
          /\ (humidityAlertSent => (~humidityAlertSent' <=> ~HumOut))
          /\ (pressureAlertSent => (~pressureAlertSent' <=> ~PresLow))
          /\ ("gas_leak" \in cleared') = (gasAlertActive /\ ~gasAlertActive')
          /\ ("temperature" \in cleared')
               = (tempAlertActive /\ ~tempAlertActive')
          /\ ("humidity" \in cleared')
               = (humidityAlertSent /\ ~humidityAlertSent')
          /\ ("pressure" \in cleared')
               = (pressureAlertSent /\ ~pressureAlertSent')
          /\ cleared' \cap sent' = {}
     ELSE \/ pc' = "boot"
          \/ UNCHANGED <<gasAlertActive, tempAlertActive, humidityAlertSent,
                         pressureAlertSent>>]_vars

\* all four states went from Active to Inactive in one call, silently
C3_Witness ==
  /\ cleared = {"gas_leak", "temperature", "humidity", "pressure"}
  /\ sent = {}
  /\ ~gasAlertActive /\ ~tempAlertActive
  /\ ~humidityAlertSent /\ ~pressureAlertSent

\* C4: readSensors validates and assigns temperature, humidity and pressure
\* one by one: a field that passes validation takes the new value, a field
\* that fails keeps its previous one, whatever the other fields did.
C4_PartialUpdate ==
  [][ReadSensorsStep =>
       IF sample' = <<>>
       THEN UNCHANGED <<temperature, humidity, pressure>>
       ELSE /\ temperature' = IF ValidTemp(sample'[1])
                              THEN sample'[1] ELSE temperature
            /\ humidity' = IF ValidHum(sample'[2])
                           THEN sample'[2] ELSE humidity
            /\ pressure' = IF ValidPres(sample'[3])
                           THEN sample'[3] ELSE pressure]_vars

\* prior temperature 20.0; the read returned NaN and 55.0 %: temperature is
\* still 20.0 and humidity is 55.0
C4_Witness ==
  /\ spc \in {"upload", "give"}
  /\ sample = <<NaN, 550, 10000, 0>>
  /\ temperature = 200 /\ humidity = 550 /\ pressure = 10000

\* C5: in every state reachable from boot the reading holds a temperature in
\* (-40, 85) degC, a humidity in [0, 100] % and a pressure in (800, 1200) hPa.
C5_ReadingInRange ==
  /\ temperature > -400 /\ temperature < 850
  /\ humidity >= 0 /\ humidity <= 1000
  /\ pressure > 8000 /\ pressure < 12000

\* C6: a boot that finds no stored baseline runs the calibration during
\* startup, before the first sampling cycle.
C6_FirstBootCalibrates ==
  [][(BootStep /\ ~isKey(preferences, "mq135_ro"))
       => (calRuns' = 1 /\ isKey(preferences', "mq135_ro"))]_vars

\* C7: a boot that finds the force flag set calibrates once and clears the
\* flag; the reset_preferences command leaves the flag set when it restarts.
C7_ForcedCalibrationOnce ==
  [][/\ (BootStep /\ getBool(preferences, FALSE))
          => (calRuns' = 1 /\ ~getBool(preferences', FALSE))
     /\ (rebooted' = "reset_preferences" /\ pc # "boot")
          => getBool(preferences', FALSE)]_vars

\* C8: a boot with a stored baseline and no force flag does not calibrate and
\* runs with the stored Ro; Ro then changes only by a calibration or a
\* reboot, and every sampling cycle converts the gas reading with it.
C8_StoredBaselineUsed ==
  [][/\ (BootStep /\ isKey(preferences, "mq135_ro")
           /\ ~getBool(preferences, FALSE))
          => (calRuns' = 0 /\ Ro' = preferences.mq135_ro
              /\ preferences' = preferences)
     /\ (pc # "boot" /\ pc' # "boot" /\ calRuns' = 0) => Ro' = Ro
     /\ (ReadSensorsStep /\ sample' # <<>>)
          => gasPPM' = calculateGasPPM(firmware, sample'[4], temperature',
                                       humidity', Ro)]_vars

\* setup() has just returned (no sample taken yet) without calibrating, with
\* the stored baseline, which is not the default, as Ro
C8_Witness ==
  /\ firmware = "v2" /\ pc = "net" /\ spc = "read"
  /\ temperature = 0 /\ ~tempAlertActive
  /\ calRuns = 0
  /\ isKey(preferences, "mq135_ro") /\ ~getBool(preferences, FALSE)
  /\ Ro = preferences.mq135_ro /\ Ro # RoDefault

\* C9: when a calibration completes the stored baseline equals the computed
\* Ro, and the Ro loaded by a later boot is that stored value.
C9_CalibrationPersisted ==
  [][/\ calRuns' = 1
          => (isKey(preferences', "mq135_ro") /\ preferences'.mq135_ro = Ro')
     /\ (BootStep /\ calRuns' = 0 /\ isKey(preferences, "mq135_ro"))
          => Ro' = preferences.mq135_ro]_vars

\* C10: a poll that observes calibrate = true runs the calibration whatever
\* baseline is stored, and the flag is false when that is done.
C10_CalibrateCommandCleared ==
  [][/\ (pc = "net" /\ "calibrate" \in json') => pc' = "calibrating"
     /\ CalibrateCommandStep => (calRuns' = 1 /\ ~commands'["calibrate"])]_vars

\* the steps that are one pass of the upload blocks of the network task
UploadStep_v3 == firmware = "v3" /\ pc = "upload" /\ pc' = "net"

\* C11: a worker whose bounded wait for the sensor-data mutex times out
\* skips that cycle: it emits no record, so every live update and every
\* history record that is sent carries the sensor fields read under the
\* mutex.
C11_TimeoutSkipsCycle ==
  [][UploadStep_v3 =>
       /\ \A u \in uploaded' : u.live = LiveFields
       /\ \A h \in stored' : h = storeHistoricalData]_vars

\* C12: the two workers share state only under the sensor-data mutex: while
\* one worker holds it, the other changes none of the shared variables
\* (sensor readings, Ro, alert flags).
C12_SharedStateUnderMutex ==
  [][(firmware = "v3" /\ sensorDataMutex = "sensor" /\ pc' # "boot")
       => UNCHANGED <<temperature, humidity, pressure, gasRaw, gasPPM, Ro,
                      gasAlertActive, tempAlertActive>>]_vars

\* C13: with raw_adc = 0 the gas model returns exactly 0.0, in both
\* sketches, whatever temperature, humidity and Ro are (NaN, zero and
\* infinite ones included, which the later steps would turn into NaN).
C13_ZeroAdcGivesZero ==
  (pc \in {"evaluated", "reevaluated"} /\ gasRaw = 0) => gasPPM = 0

\* the compensated model evaluated on raw_adc = 0 with Ro = NaN, over a
\* previous result of 400 ppm
C13_Witness ==
  /\ firmware = "v3" /\ pc = "reevaluated"
  /\ gasRaw = 0 /\ Ro = NaN /\ temperature = NaN
  /\ gasPPM = 0

C15_CalibrationIdempotent ==
  [][calRuns' = 1 =>
       /\ calSamples' \in CalibrationRuns
       /\ (calSamples'[1] = 2048) => Ro' = 1895
       /\ (calSamples'[1] = 0) => Ro' = Inf]_vars

\* a remote calibration of the v2 sketch, which has calibrated at boot
\* before, has just yielded 1.895 kOhm from the mixed samples
C15_Witness ==
  /\ firmware = "v2" /\ pc = "dispatch"
  /\ calRuns = 1 /\ calSamples # <<>> /\ calSamples[1] = 2048
  /\ Ro = 1895

\* C16: the sensor-error flag changes only during startup; once set it stays
\* set until a reboot, every sampling call is then a no-op (it reads
\* nothing), and no step changes temperature, humidity, pressure, gas_raw
\* or gas_ppm.
C16_SensorAbsentNoOp ==
  [][/\ (sensorError' # sensorError) => (pc = "boot" \/ pc' = "boot")
     /\ (sensorError /\ pc' # "boot")
          => /\ sensorError'
             /\ sample' = <<>>
             /\ UNCHANGED <<temperature, humidity, pressure, gasRaw,
                            gasPPM>>]_vars

\* a sampling call has just returned without reading, the sensor absent
C16_Witness ==
  /\ sensorError /\ pc # "boot"
  /\ spc \in {"upload", "give"}
  /\ sample = <<>>
  /\ gasRaw = 0 /\ gasPPM = 0 /\ temperature = 0

\* the persisted baseline: the value under "mq135_ro", if the key exists
BaselineOf(store) ==
  IF isKey(store, "mq135_ro") THEN <<store.mq135_ro>> ELSE <<>>

\* C20 as stated: the in-memory Ro of a running device and the persisted
\* baseline change only in a step that runs the calibration.
C20_BaselineOnlyByCalibration ==
  [][/\ (pc # "boot" /\ pc' # "boot" /\ Ro' # Ro) => calRuns' = 1
     /\ (BaselineOf(preferences') # BaselineOf(preferences))
          => calRuns' = 1]_vars

\* C20, amended: the in-memory Ro of a running device changes only in a step
\* that runs the calibration; the persisted baseline changes only in such a
\* step or when the reset_preferences command clears the store, which
\* removes it.
C20_BaselineByCalibrationOrReset ==
  [][/\ (pc # "boot" /\ pc' # "boot" /\ Ro' # Ro) => calRuns' = 1
     /\ (BaselineOf(preferences') # BaselineOf(preferences))
          => \/ calRuns' = 1
             \/ /\ rebooted' = "reset_preferences"
                /\ BaselineOf(preferences') = <<>>]_vars

\* reset_preferences has just removed the baseline the v2 sketch had stored
C20_Witness ==
  /\ firmware = "v2" /\ pc = "boot"
  /\ rebooted = "reset_preferences"
  /\ BaselineOf(preferences) = <<>>
  /\ getBool(preferences, FALSE)

\* C17: every endpoint of the middleware requires Firebase Authentication:
\* a request without a valid ID token is never answered with 200 and never
\* changes the commands node.
C17_EndpointsRequireAuth ==
  [][(response'.endpoint \in {"live", "command"} /\ ~response'.authorized)
       => response'.code # 200 /\ commands' = commands]_vars

\* C18: POST /command writes {action: true} under the commands node, and
\* answers 200, only for an action of the allowlist (calibrate, reboot,
\* reset_preferences, test_display); a missing or any other action is
\* answered with 400 and leaves the commands node as it was.
C18_CommandAllowlist ==
  [][response'.endpoint = "command" =>
       LET action == response'.action
       IN IF action \in {"calibrate", "reboot", "reset_preferences",
                         "test_display"}
          THEN /\ response'.code = 200
               /\ commands'[action]
               /\ \A c \in DOMAIN commands \ {action} :
                    commands'[c] = commands[c]
               /\ DOMAIN commands' = DOMAIN commands
          ELSE /\ response'.code = 400
               /\ commands' = commands]_vars

\* an invalid action was refused after a valid one had been written
C18_Witness ==
  /\ response.endpoint = "command"
  /\ response.action = "format_flash"
  /\ response.code = 400
  /\ commands["reboot"]
  /\ DOMAIN commands = Commands

\* C19: presence follows data freshness: a device whose last live upload is
\* less than 30 s old is reported online by GET /live.
C19_UploadingDeviceOnline ==
  (response.endpoint = "live" /\ response.code = 200
     /\ clock - live[2] < PresenceThreshold)
    => response.status = "online"

\* C21: alert emission is fire-and-forget: a checkAlerts call that finds a
\* metric out of band and Inactive makes it Active whether or not the sink
\* is available; with the sink unavailable the alert is dropped; a metric
\* that is already Active emits nothing, sink recovered or not; and no other
\* step emits anything (no retry, no requeue).
C21_FireAndForget ==
  [][IF CheckAlertsStep
     THEN /\ (GasHigh /\ ~gasAlertActive) => gasAlertActive'
          /\ (TempOut /\ ~tempAlertActive) => tempAlertActive'
          /\ (HumOut /\ ~humidityAlertSent) => humidityAlertSent'
          /\ (PresLow /\ ~pressureAlertSent) => pressureAlertSent'
          /\ ~sinkReady => delivered' = {}
          /\ delivered' \subseteq sent'
          /\ gasAlertActive => "gas_leak" \notin delivered'
          /\ tempAlertActive => "temperature" \notin delivered'
          /\ humidityAlertSent => "humidity" \notin delivered'
          /\ pressureAlertSent => "pressure" \notin delivered'
     ELSE delivered' = {} \/ delivered' = delivered]_vars

\* gas crossed the threshold while the sink was unavailable: the alert was
\* dropped and gas is Active
C21_Witness ==
  /\ ~sinkReady /\ spc = "read" /\ pc # "boot"
  /\ GasHigh /\ gasAlertActive
  /\ "gas_leak" \in sent /\ delivered = {}

\* C22: once started, a calibration runs to completion: when it returns it
\* has taken exactly 20 samples, Ro is the value computed from them, and
\* that value is the persisted baseline.
C22_CalibrationCompletes ==
  pc = "calibrated" =>
    /\ calIndex = 20
    /\ Ro = RoOfSum(rsSum)
    /\ isKey(preferences, "mq135_ro")
    /\ preferences.mq135_ro = Ro

\* C23: from the entry of a calibration run to its return, the time since
\* the last watchdog reset (or since the entry) stays below the 30 s
\* watchdog timeout, and the run returns right after a reset.
C23_WatchdogFedInCalibration ==
  /\ pc \in CalPositions => sinceReset < 30 * 1000
  /\ pc = "calibrated" => sinceReset = 0

\* the result is on the display: 4 s after the reset of the 16th sample,
\* the four last samples and the 3 s display delay having passed
C23_Witness ==
  /\ pc = "cal_final" /\ calIndex = 20
  /\ sinceReset = 4000

\* C24: every path that takes the sensor-data mutex gives it back before it
\* returns: at most one task is inside a section, the semaphore is away
\* exactly while one is, a task is inside exactly at the positions between
\* its take and its give, and whatever is sent to the network (the live
\* update, the history record, the /status reply) is sent by a task that is
\* outside its section before and after the send.
C24_MutexReleased ==
  /\ [](/\ Cardinality(holders) <= 1
        /\ (semaphore = 1) <=> (holders = {})
        /\ ("sensor" \in holders) <=> (spc \in SensorSection)
        /\ ("network" \in holders) <=> (pc \in NetworkSection))
  /\ [][(uploaded' # {} \/ stored' # {} \/ statusReply' # {})
          => ("network" \notin holders /\ "network" \notin holders')]_vars

\* the history record has just been pushed, the semaphore given back
\* before that, while the sensor task holds it for its next cycle
C24_Witness ==
  /\ stored # {} /\ pc = "telegram"
  /\ holders = {"sensor"} /\ semaphore = 0
  /\ spc = "w_hum"

\* C25: in the two-task sketch the calibration assigns the new Ro while it
\* holds the sensor-data mutex, so Ro does not change while the sensor task
\* is inside its sampling section.
C25_RoAssignedUnderMutex ==
  [][Ro' # Ro => ("network" \in holders /\ "sensor" \notin holders)]_vars

\* the sensor fields a completed cycle left, as each record carries them
HistoryOf(fields) == <<fields[1], fields[2], fields[3], fields[5]>>
StatusOf(fields) == <<fields[1], fields[2], fields[5]>>

\* the values Ro can have in the two-task sketch
RoValues == {RoDefault} \cup {CalibrateRo(run) : run \in CalibrationRuns}

\* C29: in the two-task sketch the sensor fields a reader copies are those
\* of one completed sampling cycle (the boot values standing for the cycle
\* before the first), the live update, the history record and the /status
\* reply carry what was copied, and the gas_ppm of a completed cycle is the
\* gas-model result for its gas_raw, temperature and humidity.
C29_NoTornSnapshot ==
  [][/\ (pc = "up_copy" /\ pc' = "up_give") => json' = snapshot
     /\ (pc = "h_copy" /\ pc' = "h_give") => json' = HistoryOf(snapshot)
     /\ (pc = "tg_copy" /\ pc' = "tg_give") => json' = StatusOf(snapshot)
     /\ \A u \in uploaded' : u.live = json
     /\ \A h \in stored' : h = json
     /\ \A r \in statusReply' : r = json
     /\ (spc = "give" /\ spc' = "display")
          => \E ro \in RoValues :
               snapshot'[5] = calculateGasPPM_v3(snapshot'[4], snapshot'[1],
                                                 snapshot'[2], ro)]_vars

\* a live update with the fields of the cycle that read 35.1 degC, sent
\* while the sensor task is half way through the next cycle
C29_Witness ==
  /\ \E u \in uploaded : u.live = snapshot /\ u.live[1] = 351
  /\ spc = "w_pres" /\ temperature # snapshot[1]

\* C26: the reboot and the reset_preferences command reset their flag to
\* false before the device restarts: right after a restart caused by a
\* command, the flag of that command is false in the database.
C26_FlagResetBeforeRestart ==
  [][(pc = "dispatch" /\ pc' = "boot")
       => /\ rebooted' = "reboot" => ~commands'["reboot"]
          /\ rebooted' = "reset_preferences"
               => ~commands'["reset_preferences"]]_vars

\* C27: no temperature, humidity or pressure alert is emitted, and none of
\* these metrics becomes Active, from the placeholder values: with the
\* sensor absent (no sample is ever stored) checkAlerts emits none of the
\* three and leaves the three Inactive.
C27_NoAlertFromPlaceholders ==
  [][(CheckAlertsStep /\ sensorError)
       => /\ sent' \cap {"temperature", "humidity", "pressure"} = {}
          /\ ~tempAlertActive' /\ ~humidityAlertSent'
          /\ ~pressureAlertSent']_vars

\* C28: in every live update that carries sensor fields the alert flags
\* agree with the readings of the same update: gas_alert is true exactly
\* when gas_ppm exceeds 300, temp_alert exactly when the temperature is
\* outside [10.0, 35.0].
C28_AlertFlagsAgree ==
  [][\A u \in uploaded' :
       u.live # <<>> =>
         /\ u.alerts[1] = FGt(u.live[5], GAS_ALERT_THRESHOLD)
         /\ u.alerts[2] = (FGt(u.live[1], TEMP_HIGH_ALERT)
                           \/ FLt(u.live[1], TEMP_LOW_ALERT))]_vars

\* C30: in the single-loop firmware reconnectAttempts never exceeds 6; a
\* loop iteration that sees WiFi connected resets it to 0; it grows by one
\* at a time, only when more than 30 s have passed since the last attempt;
\* and once it exceeds 5 the next thing the device does is restart.
C30_ReconnectAttemptsBounded ==
  /\ [](reconnectAttempts \in 0..6)
  /\ [][/\ (pc = "wifi_loop" /\ wlStatus = "WL_CONNECTED"
              /\ <<pc, wifiConnected, reconnectAttempts>>'
                   # <<pc, wifiConnected, reconnectAttempts>>)
             => reconnectAttempts' = 0
        /\ reconnectAttempts' # reconnectAttempts
             => \/ reconnectAttempts' = 0
                \/ /\ reconnectAttempts' = reconnectAttempts + 1
                   /\ wlStatus # "WL_CONNECTED"
                   /\ millis - wifiReconnectTime > 30000
        /\ (reconnectAttempts > 5 /\ pc' # pc)
             => (pc' = "wifi_setup" /\ reconnectAttempts' = 0)
        /\ (reconnectAttempts <= 5 /\ pc = "wifi_attempt" /\ pc' # pc)
             => wifiReconnectTime' = millis]_vars

\* the sixth attempt in a row has been counted and the device has
\* restarted
C30_Witness ==
  /\ pc = "wifi_setup"
  /\ rebooted = "wifi"
  /\ reconnectAttempts = 0

====
